---- MODULE Spec2Model ----
(***************************************************************************)
(* Model of get_compound_info2.py: the command-line entry point and the    *)
(* function get_compound_info, which chains four PubChem PUG REST requests *)
(* (name -> cids, cid -> synonyms, cid -> IUPACName, cid -> IsomericSMILES)*)
(* and reduces them to one tab-delimited line.  Strings whose content      *)
(* matters (synonyms, response texts, the returned line) are sequences of  *)
(* one-character strings.                                                  *)
(***************************************************************************)
EXTENDS Integers, Sequences, FiniteSets, TLC

VARIABLES pc, argv, compound_name, requests, resp1, resp2, resp3, resp4,
          cid, cas, iupac, smiles, log, result, stdout, exitCode

vars == <<pc, argv, compound_name, requests, resp1, resp2, resp3, resp4,
          cid, cas, iupac, smiles, log, result, stdout, exitCode>>

----------------------------------------------------------------------------
(* Bounds and input sets *)

MaxCids == 2
MaxSyn == 2

Names == {"ethanol", "no such compound"}
Cids == {702, 5}
NoCid == 0

TAB == "\t"
LF == "\n"
Whitespace == {" ", TAB, LF}
Digits == {"0", "1", "2", "3", "4", "5", "6", "7", "8", "9"}

NotFound == <<"N", "o", "t", " ", "f", "o", "u", "n", "d">>
NotFoundTriple == NotFound \o <<TAB>> \o NotFound \o <<TAB>> \o NotFound
Usage == <<"U", "s", "a", "g", "e">>
NoResult == <<"<", "n", "o", "n", "e", ">">>

SeqsUpTo(S, n) == UNION {[1..k -> S] : k \in 0..n}

\* synonym entries the service may answer: JSON strings, or a non-string value
Str(s) == [isStr |-> TRUE, val |-> s]
NonStr == [isStr |-> FALSE, val |-> <<>>]
SynEntries ==
    { Str(<<>>), Str(<<"-", "-">>), Str(<<"6", "4", "-", "1", "7", "-", "5">>),
      Str(<<"7", "0", "2">>), Str(<<"2", "-", "o", "l">>), NonStr }
SynLists == SeqsUpTo(SynEntries, MaxSyn)
CidLists == SeqsUpTo(Cids, MaxCids)

\* response texts of the two plain-text endpoints
Texts ==
    { <<>>, <<LF>>, <<" ", "C", "C", "O", LF>>, <<"C", TAB, "C">>, <<"C", LF, "C">> }
\* the text of an answer whose status is not 200
FaultTexts == { <<"F", "a", "u", "l", "t">> }

----------------------------------------------------------------------------
(* Responses.  err is the transport outcome of requests.get, status the    *)
(* HTTP status of an answered request, and the rest the body.              *)

TransportErrors == {"ConnectionError", "Timeout"}
\* statuses an answered request may carry: success, a redirection class status
\* that requests hands back as is (no Location to follow), a client error
Statuses == {200, 300, 404}

Unsent == [err |-> "unsent", status |-> 0]

Resp1(err, status, json, shape, cids) ==
    [err |-> err, status |-> status, json |-> json, shape |-> shape, CID |-> cids]
Resp2(err, status, json, shape, syn) ==
    [err |-> err, status |-> status, json |-> json, shape |-> shape, Synonym |-> syn]
RespText(err, status, text) ==
    [err |-> err, status |-> status, text |-> text]

Outcomes1 ==
    {Resp1(e, 0, FALSE, "none", <<>>) : e \in TransportErrors}
    \cup {Resp1("none", st, FALSE, "none", <<>>) : st \in Statuses}
    \cup {Resp1("none", st, TRUE, "no_IdentifierList", <<>>) : st \in Statuses}
    \cup {Resp1("none", st, TRUE, "ok", l) : st \in Statuses, l \in CidLists}

Outcomes2 ==
    {Resp2(e, 0, FALSE, "none", <<>>) : e \in TransportErrors}
    \cup {Resp2("none", st, FALSE, "none", <<>>) : st \in Statuses}
    \cup {Resp2("none", st, TRUE, sh, <<>>) :
             st \in Statuses, sh \in {"no_InformationList", "empty_Information"}}
    \cup {Resp2("none", st, TRUE, "ok", l) : st \in Statuses, l \in SynLists}

OutcomesText ==
    {RespText(e, 0, <<>>) : e \in TransportErrors}
    \cup {RespText("none", 200, t) : t \in Texts}
    \cup {RespText("none", st, t) : st \in Statuses \ {200}, t \in FaultTexts}

----------------------------------------------------------------------------
(* Pure helpers *)

RECURSIVE replace(_, _)
\* str.replace(old, ''): drop every occurrence of the character old
replace(s, old) ==
    IF s = <<>> THEN <<>>
    ELSE IF Head(s) = old THEN replace(Tail(s), old)
         ELSE <<Head(s)>> \o replace(Tail(s), old)

\* a digit test that accepts the empty string
isdigitVacuous(s) == \A i \in 1..Len(s) : s[i] \in Digits

\* str.isdigit(): non-empty and every character a digit
isdigit(s) == s # <<>> /\ \A i \in 1..Len(s) : s[i] \in Digits

\* the predicate of the generator at line 51
IsCas(s) == isdigit(replace(s, "-"))

RECURSIVE lstrip(_)
lstrip(s) == IF s # <<>> /\ Head(s) \in Whitespace THEN lstrip(Tail(s)) ELSE s

RECURSIVE rstrip(_)
rstrip(s) ==
    IF s # <<>> /\ s[Len(s)] \in Whitespace THEN rstrip(SubSeq(s, 1, Len(s) - 1))
    ELSE s

\* str.strip()
strip(s) == rstrip(lstrip(s))

RECURSIVE ScanSynonymsNoDefault(_)
\* next(...) without the default: an exhausted generator raises StopIteration
ScanSynonymsNoDefault(syn) ==
    IF syn = <<>> THEN [exc |-> "StopIteration", cas |-> NotFound]
    ELSE IF ~Head(syn).isStr THEN [exc |-> "AttributeError", cas |-> NotFound]
    ELSE IF IsCas(Head(syn).val) THEN [exc |-> "none", cas |-> Head(syn).val]
    ELSE ScanSynonymsNoDefault(Tail(syn))

RECURSIVE ScanSynonyms(_)
\* next((s for s in synonyms if s.replace('-', '').isdigit()), 'Not found'):
\* the generator is consumed in list order and stops at the first match; a
\* non-string entry met before a match raises AttributeError
ScanSynonyms(syn) ==
    IF syn = <<>> THEN [exc |-> "none", cas |-> NotFound]
    ELSE IF ~Head(syn).isStr THEN [exc |-> "AttributeError", cas |-> NotFound]
    ELSE IF IsCas(Head(syn).val) THEN [exc |-> "none", cas |-> Head(syn).val]
    ELSE ScanSynonyms(Tail(syn))

\* requests.get(url, timeout=10): raises on a transport failure
GetExc(r) == IF r.err \in TransportErrors THEN r.err ELSE "none"

\* response.raise_for_status(): HTTPError for a 4xx or 5xx status only
RaiseForStatus(r) ==
    IF r.status >= 400 /\ r.status < 600 THEN "HTTPError" ELSE "none"

\* step 1 without the status check, as steps 3 and 4 are written
Step1ExcNoStatusCheck(r) ==
    IF GetExc(r) # "none" THEN GetExc(r)
    ELSE IF ~r.json THEN "JSONDecodeError"
    ELSE IF r.shape # "ok" THEN "KeyError"
    ELSE IF r.CID = <<>> THEN "IndexError"
    ELSE "none"

\* lines 41-44: the exception raised by step 1, "none" when it yields a cid
Step1Exc(r) ==
    IF GetExc(r) # "none" THEN GetExc(r)
    ELSE IF RaiseForStatus(r) # "none" THEN RaiseForStatus(r)
    ELSE IF ~r.json THEN "JSONDecodeError"
    ELSE IF r.shape # "ok" THEN "KeyError"
    ELSE IF r.CID = <<>> THEN "IndexError"
    ELSE "none"

\* lines 48-51
Step2Exc(r) ==
    IF GetExc(r) # "none" THEN GetExc(r)
    ELSE IF RaiseForStatus(r) # "none" THEN RaiseForStatus(r)
    ELSE IF ~r.json THEN "JSONDecodeError"
    ELSE IF r.shape = "no_InformationList" THEN "KeyError"
    ELSE IF r.shape = "empty_Information" THEN "IndexError"
    ELSE ScanSynonyms(r.Synonym).exc

\* a text request whose transport failure is swallowed
TextExcSwallowed(r) == "none"

\* lines 55 and 59: requests.get(...).text.strip() with no status check
TextExc(r) == GetExc(r)

\* the except clause an exception lands in.  requests.exceptions.JSONDecodeError
\* derives from RequestException since requests 2.27 and from ValueError only
\* before; the script pins no version, so both clauses are possible.
HandlerPrefixes(exc) ==
    IF exc \in TransportErrors \cup {"HTTPError"} THEN {"Request failed for"}
    ELSE IF exc = "JSONDecodeError" THEN {"Request failed for", "Unexpected error for"}
    ELSE {"Unexpected error for"}

\* the URLs of lines 40, 47, 54, 58 (path segments after the base URL)
cid_url(name) == [kind |-> "name", name |-> name, id |-> NoCid, what |-> "cids/JSON"]
synonyms_url(c) == [kind |-> "cid", name |-> "", id |-> c, what |-> "synonyms/JSON"]
iupac_url(c) == [kind |-> "cid", name |-> "", id |-> c, what |-> "property/IUPACName/TXT"]
smiles_url(c) == [kind |-> "cid", name |-> "", id |-> c, what |-> "property/IsomericSMILES/TXT"]

\* the f-string of line 61
FormatResult(a, b, c) == a \o <<TAB>> \o b \o <<TAB>> \o c

\* an argument test that is off by one
MissingArgOffByOne(av) == Len(av) < 3

\* len(sys.argv) < 2
MissingArg(av) == Len(av) < 2

----------------------------------------------------------------------------
(* State machine *)

Init ==
    /\ pc = "main"
    /\ argv \in {<<"prog">>} \cup {<<"prog", n>> : n \in Names}
    /\ compound_name = ""
    /\ requests = <<>>
    /\ resp1 = Unsent /\ resp2 = Unsent /\ resp3 = Unsent /\ resp4 = Unsent
    /\ cid = NoCid
    /\ cas = <<>> /\ iupac = <<>> /\ smiles = <<>>
    /\ log = <<>>
    /\ result = NoResult
    /\ stdout = <<>>
    /\ exitCode = -1

\* lines 62-67: log at error level and return the fallback line
Except(exc) ==
    /\ \E p \in HandlerPrefixes(exc) :
          log' = Append(log, [level |-> "ERROR", prefix |-> p,
                              name |-> compound_name, detail |-> exc])
    /\ result' = NotFoundTriple
    /\ pc' = "print"

\* lines 70-72
MainUsage ==
    /\ pc = "main"
    /\ MissingArg(argv)
    /\ stdout' = Append(stdout, Usage)
    /\ exitCode' = 1
    /\ pc' = "exit"
    /\ UNCHANGED <<argv, compound_name, requests, resp1, resp2, resp3, resp4,
                   cid, cas, iupac, smiles, log, result>>

\* line 73, entering get_compound_info(sys.argv[1])
MainCall ==
    /\ pc = "main"
    /\ ~MissingArg(argv)
    /\ compound_name' = argv[2]
    /\ pc' = "ep1"
    /\ UNCHANGED <<argv, requests, resp1, resp2, resp3, resp4,
                   cid, cas, iupac, smiles, log, result, stdout, exitCode>>

\* lines 40-44
Step1 ==
    /\ pc = "ep1"
    /\ \E r \in Outcomes1 :
          /\ requests' = Append(requests, cid_url(compound_name))
          /\ resp1' = r
          /\ IF Step1Exc(r) # "none"
             THEN Except(Step1Exc(r)) /\ UNCHANGED cid
             ELSE cid' = r.CID[1] /\ pc' = "ep2" /\ UNCHANGED <<log, result>>
    /\ UNCHANGED <<argv, compound_name, resp2, resp3, resp4,
                   cas, iupac, smiles, stdout, exitCode>>

\* lines 47-51
Step2 ==
    /\ pc = "ep2"
    /\ \E r \in Outcomes2 :
          /\ requests' = Append(requests, synonyms_url(cid))
          /\ resp2' = r
          /\ IF Step2Exc(r) # "none"
             THEN Except(Step2Exc(r)) /\ UNCHANGED cas
             ELSE cas' = ScanSynonyms(r.Synonym).cas /\ pc' = "ep3"
                  /\ UNCHANGED <<log, result>>
    /\ UNCHANGED <<argv, compound_name, resp1, resp3, resp4,
                   cid, iupac, smiles, stdout, exitCode>>

\* lines 54-55
Step3 ==
    /\ pc = "ep3"
    /\ \E r \in OutcomesText :
          /\ requests' = Append(requests, iupac_url(cid))
          /\ resp3' = r
          /\ IF TextExc(r) # "none"
             THEN Except(TextExc(r)) /\ UNCHANGED iupac
             ELSE iupac' = strip(r.text) /\ pc' = "ep4"
                  /\ UNCHANGED <<log, result>>
    /\ UNCHANGED <<argv, compound_name, resp1, resp2, resp4,
                   cid, cas, smiles, stdout, exitCode>>

\* lines 58-61
Step4 ==
    /\ pc = "ep4"
    /\ \E r \in OutcomesText :
          /\ requests' = Append(requests, smiles_url(cid))
          /\ resp4' = r
          /\ IF TextExc(r) # "none"
             THEN Except(TextExc(r)) /\ UNCHANGED smiles
             ELSE /\ smiles' = strip(r.text)
                  /\ result' = FormatResult(cas, iupac, strip(r.text))
                  /\ pc' = "print"
                  /\ UNCHANGED log
    /\ UNCHANGED <<argv, compound_name, resp1, resp2, resp3,
                   cid, cas, iupac, stdout, exitCode>>

\* line 73: print the returned line; the interpreter then exits with code 0
MainPrint ==
    /\ pc = "print"
    /\ stdout' = Append(stdout, result)
    /\ exitCode' = 0
    /\ pc' = "exit"
    /\ UNCHANGED <<argv, compound_name, requests, resp1, resp2, resp3, resp4,
                   cid, cas, iupac, smiles, log, result>>

Next == MainUsage \/ MainCall \/ Step1 \/ Step2 \/ Step3 \/ Step4 \/ MainPrint

Spec == Init /\ [][Next]_vars

----------------------------------------------------------------------------
(* Vocabulary of the properties, stated on the recorded responses and on   *)
(* the returned line rather than through the operators above.              *)

Returned == pc \in {"print", "exit"} /\ result # NoResult

Sent(r) == r.err # "unsent"
Answered(r) == r.err = "none"
TransportFailed(r) == r.err \in TransportErrors
Non2xx(r) == Answered(r) /\ (r.status < 200 \/ r.status > 299)
ErrorStatus(r) == Answered(r) /\ r.status >= 400 /\ r.status <= 599
Success(r) == Answered(r) /\ r.status >= 200 /\ r.status <= 299

\* a synonym made of digits and hyphens only, with at least one digit
DigitsAndHyphens(e) ==
    /\ e.isStr
    /\ \A i \in 1..Len(e.val) : e.val[i] \in Digits \cup {"-"}
    /\ \E i \in 1..Len(e.val) : e.val[i] \in Digits

NoIdentifier(r) == Answered(r) /\ (~r.json \/ r.shape # "ok" \/ r.CID = <<>>)
Ok1 == Success(resp1) /\ ~NoIdentifier(resp1)
Ok2 ==
    /\ Success(resp2) /\ resp2.json /\ resp2.shape = "ok"
    /\ \A i \in 1..Len(resp2.Synonym) : resp2.Synonym[i].isStr
Ok3 == Success(resp3)
Ok4 == Success(resp4)

\* a malformed or unexpected shape of an answered JSON response
Malformed1 == Answered(resp1) /\ NoIdentifier(resp1)
Malformed2 ==
    /\ Answered(resp2)
    /\ \/ ~resp2.json
       \/ resp2.shape # "ok"
       \/ \E i \in 1..Len(resp2.Synonym) :
             /\ ~resp2.Synonym[i].isStr
             /\ \A j \in 1..(i - 1) : ~DigitsAndHyphens(resp2.Synonym[j])

RECURSIVE Fields(_)
\* the fields of a tab-delimited line
Fields(s) ==
    IF \A i \in 1..Len(s) : s[i] # TAB THEN <<s>>
    ELSE LET i == CHOOSE k \in 1..Len(s) :
                     s[k] = TAB /\ \A j \in 1..(k - 1) : s[j] # TAB
         IN <<SubSeq(s, 1, i - 1)>> \o Fields(SubSeq(s, i + 1, Len(s)))

----------------------------------------------------------------------------
\* C1: if any of the four requests is answered with a non-2xx status, the
\* call returns exactly the all-"Not found" line.
C1_Non2xxGivesFallback ==
    (Returned /\ (Non2xx(resp1) \/ Non2xx(resp2) \/ Non2xx(resp3) \/ Non2xx(resp4)))
        => result = NotFoundTriple

\* C2: once steps 1 and 2 have yielded an identifier and a registry number, a
\* transport error (network failure or timeout) of request 3 or request 4
\* makes the call return exactly the all-"Not found" line.
C2_TransportFailureDiscardsAll ==
    (Returned /\ (TransportFailed(resp3) \/ TransportFailed(resp4)))
        => result = NotFoundTriple

C2_Witness ==
    /\ pc = "exit"
    /\ Ok1 /\ Ok2 /\ Ok3 /\ TransportFailed(resp4)
    /\ cas # NotFound /\ iupac # <<>>
    /\ stdout = <<NotFoundTriple>>

\* C3: whatever the four endpoints answer, the call returns a value, and the
\* value is a tab-delimited record of three fields.
C3_AlwaysThreeFields ==
    (pc \in {"print", "exit"} /\ Len(argv) >= 2)
        => (result # NoResult /\ Len(Fields(result)) = 3)

C5_NoMatchDoesNotShortCircuit ==
    (Returned /\ Ok1 /\ Ok2
       /\ \A i \in 1..Len(resp2.Synonym) : ~DigitsAndHyphens(resp2.Synonym[i]))
        => /\ Sent(resp3)
           /\ Ok3 => Sent(resp4)
           /\ (Ok3 /\ Ok4) =>
                result = NotFound \o <<TAB>> \o strip(resp3.text)
                                  \o <<TAB>> \o strip(resp4.text)

C5_Witness ==
    /\ pc = "exit"
    /\ Ok1 /\ Ok2 /\ Ok3 /\ Ok4
    /\ Len(resp2.Synonym) = 2
    /\ \A i \in 1..Len(resp2.Synonym) : ~DigitsAndHyphens(resp2.Synonym[i])
    /\ resp3.text = <<" ", "C", "C", "O", LF>>
    /\ stdout = <<NotFound \o <<TAB, "C", "C", "O", TAB, "C", "C", "O">> >>

\* C6: when all four endpoints succeed, the output is one tab-delimited line
\* of exactly three non-empty fields, whatever the texts of responses 3 and 4.
C6_ThreeNonEmptyFields ==
    (Returned /\ Ok1 /\ Ok2 /\ Ok3 /\ Ok4)
        => /\ Len(Fields(result)) = 3
           /\ \A i \in 1..Len(Fields(result)) : Fields(result)[i] # <<>>
           /\ \A i \in 1..Len(result) : result[i] # LF

\* C7: a call that meets a failure emits exactly one error-level log line and
\* a call that meets none emits no line; the line is "Request failed for" for
\* a network error, timeout or non-2xx status and "Unexpected error for" for
\* a malformed response, and it carries the compound name.
C7_FailureClass ==
    IF TransportFailed(resp1) \/ Non2xx(resp1) THEN "Request failed for"
    ELSE IF Malformed1 THEN "Unexpected error for"
    ELSE IF TransportFailed(resp2) \/ Non2xx(resp2) THEN "Request failed for"
    ELSE IF Malformed2 THEN "Unexpected error for"
    ELSE IF TransportFailed(resp3) \/ Non2xx(resp3) THEN "Request failed for"
    ELSE IF TransportFailed(resp4) \/ Non2xx(resp4) THEN "Request failed for"
    ELSE "none"

C7_OneClassifiedLogLinePerFailure ==
    Returned =>
        IF C7_FailureClass = "none" THEN log = <<>>
        ELSE /\ Len(log) = 1
             /\ log[1].level = "ERROR"
             /\ log[1].prefix = C7_FailureClass
             /\ log[1].name = argv[2]

\* C8: the process exits with code 1 exactly when no argument was supplied,
\* then printing the usage message and issuing no request; with an argument
\* it prints the line returned for that argument and exits with code 0.
C8_ExitCode ==
    /\ pc # "exit" => (exitCode = -1 /\ stdout = <<>>)
    /\ pc = "exit" =>
          /\ exitCode \in {0, 1}
          /\ exitCode = 1 <=> Len(argv) = 1
          /\ Len(argv) = 1 => (stdout = <<Usage>> /\ requests = <<>>)
          /\ Len(argv) > 1 =>
                /\ exitCode = 0
                /\ stdout = <<result>>
                /\ result # NoResult
                /\ compound_name = argv[2]
                /\ requests[1] = cid_url(argv[2])

C8_Witness ==
    /\ pc = "exit" /\ Len(argv) = 2
    /\ exitCode = 0 /\ stdout = <<NotFoundTriple>> /\ TransportFailed(resp1)

\* C9: requests go out in the order 1, 2, 3, 4, each at most once and only
\* after the previous one completed successfully, requests 2-4 use the first
\* identifier of response 1, and after a failed step no request is issued.
\* A step counts as completed here when it was answered with a status that
\* is not an error status and, for the JSON steps, with a well-formed body.
C9_Completed(r) == Answered(r) /\ ~ErrorStatus(r)

C9_Order(c) == <<cid_url(compound_name), synonyms_url(c), iupac_url(c), smiles_url(c)>>

C9_SequentialNoRequestAfterFailure ==
    /\ Len(requests) <= 4
    /\ Len(requests) >= 2 =>
          /\ resp1.CID # <<>>
          /\ requests = SubSeq(C9_Order(resp1.CID[1]), 1, Len(requests))
    /\ Len(requests) >= 2 => (C9_Completed(resp1) /\ ~Malformed1)
    /\ Len(requests) >= 3 => (C9_Completed(resp2) /\ ~Malformed2)
    /\ Len(requests) >= 4 => C9_Completed(resp3)

\* C10: when all four endpoints succeed, the registry number of the result is
\* the earliest synonym, in list order, that consists of digits once hyphens
\* are removed, and it is "Not found" exactly when there is no such synonym.
C10_RegistryNumberIsFirstMatch ==
    (Returned /\ Ok1 /\ Ok2 /\ Ok3 /\ Ok4) =>
        LET syn == resp2.Synonym
            reg == Fields(result)[1]
            M == {i \in 1..Len(syn) : DigitsAndHyphens(syn[i])}
        IN /\ M # {} => \E i \in M : (\A j \in M : i <= j) /\ reg = syn[i].val
           /\ reg = NotFound <=> M = {}

C10_Witness ==
    /\ pc = "exit" /\ Ok1 /\ Ok2 /\ Ok3 /\ Ok4
    /\ resp2.Synonym = <<Str(<<"-", "-">>), Str(<<"6", "4", "-", "1", "7", "-", "5">>)>>
    /\ Fields(result)[1] = <<"6", "4", "-", "1", "7", "-", "5">>

====
